---------------------------- MODULE Spec2Model ----------------------------
(***************************************************************************)
(* A model of the Google Maps scraper: the field extractors of utils.py,   *)
(* the card and detail parsers of parser.py, the traversal controller of   *)
(* scraper.py (GoogleMapsScraper.scrape and the phases it calls) and the   *)
(* RateLimiter of utils.py.                                                *)
(*                                                                         *)
(* Text is a TLA+ string; its i-th character is the one-character string   *)
(* Ch(s, i).  Module files are ASCII, so two glyphs of the source are      *)
(* written with ASCII stand-ins: the star glyph U+2605 is "*" and the       *)
(* middle dot U+00B7 is "|".  Python's None is the empty tuple <<>> and a   *)
(* present optional value v is <<v>>.  A dict is a function from the set   *)
(* of its keys.                                                            *)
(***************************************************************************)
EXTENDS Integers, Sequences, FiniteSets, TLC

\* ------------------------------------------------------------------ text

None == <<>>

Some(v) == <<v>>

\* the i-th character of s, "" outside of it
Ch(s, i) == IF 1 <= i /\ i <= Len(s) THEN SubSeq(s, i, i) ELSE ""

SetMin(S) == CHOOSE x \in S : \A y \in S : x <= y

StarGlyph == "*"

MiddleDot == "|"

Digits == {"0", "1", "2", "3", "4", "5", "6", "7", "8", "9"}

Letters ==
  {"a", "b", "c", "d", "e", "f", "g", "h", "i", "j", "k", "l", "m", "n", "o",
   "p", "q", "r", "s", "t", "u", "v", "w", "x", "y", "z",
   "A", "B", "C", "D", "E", "F", "G", "H", "I", "J", "K", "L", "M", "N", "O",
   "P", "Q", "R", "S", "T", "U", "V", "W", "X", "Y", "Z"}

\* the regex class \s, as far as the texts of the model go
Whitespace == {" ", "\t", "\n", "\r"}

\* the regex class [a-zA-Z0-9_-]
IdChars == Letters \cup Digits \cup {"_", "-"}

DigitValue(c) ==
  CASE c = "0" -> 0 [] c = "1" -> 1 [] c = "2" -> 2 [] c = "3" -> 3
    [] c = "4" -> 4 [] c = "5" -> 5 [] c = "6" -> 6 [] c = "7" -> 7
    [] c = "8" -> 8 [] c = "9" -> 9

\* s[from:] of Python, 1-based
Drop(s, from) == SubSeq(s, from, Len(s))

StartsWithAt(s, sub, i) ==
  /\ i >= 1
  /\ i + Len(sub) - 1 <= Len(s)
  /\ SubSeq(s, i, i + Len(sub) - 1) = sub

StartsWith(s, sub) == StartsWithAt(s, sub, 1)

\* the least index >= from where sub occurs in s, 0 when there is none
Find(s, sub, from) ==
  LET I == {i \in from..(Len(s) - Len(sub) + 1) : StartsWithAt(s, sub, i)}
  IN IF I = {} THEN 0 ELSE SetMin(I)

Contains(s, sub) == Find(s, sub, 1) > 0

\* the last index of the longest run of characters of cs that starts at i
\* (i - 1 when s[i] is not in cs)
RunEnd(s, i, cs) ==
  LET bad == {k \in i..Len(s) : Ch(s, k) \notin cs}
  IN IF bad = {} THEN Len(s) ELSE SetMin(bad) - 1

RECURSIVE LStrip(_)
LStrip(s) ==
  IF Len(s) > 0 /\ Ch(s, 1) \in Whitespace THEN LStrip(Drop(s, 2)) ELSE s

RECURSIVE RStrip(_)
RStrip(s) ==
  IF Len(s) > 0 /\ Ch(s, Len(s)) \in Whitespace
  THEN RStrip(SubSeq(s, 1, Len(s) - 1))
  ELSE s

\* str.strip()
Strip(s) == LStrip(RStrip(s))

\* str.split(sep) for a one-character sep: always at least one piece
RECURSIVE Split(_, _)
Split(s, sep) ==
  LET k == Find(s, sep, 1)
  IN IF k = 0
     THEN <<s>>
     ELSE <<SubSeq(s, 1, k - 1)>> \o Split(Drop(s, k + 1), sep)

\* the characters of s that are in cs, in order
RECURSIVE Keep(_, _)
Keep(s, cs) ==
  IF Len(s) = 0 THEN ""
  ELSE (IF Ch(s, 1) \in cs THEN Ch(s, 1) ELSE "") \o Keep(Drop(s, 2), cs)

\* str.replace(old, "") : every non-overlapping occurrence, left to right
RECURSIVE Remove(_, _)
Remove(s, old) ==
  LET k == Find(s, old, 1)
  IN IF k = 0 \/ Len(old) = 0
     THEN s
     ELSE SubSeq(s, 1, k - 1) \o Remove(Drop(s, k + Len(old)), old)

\* str.lower() on the letters of the model
LowerOf(c) ==
  CASE c = "A" -> "a" [] c = "B" -> "b" [] c = "C" -> "c" [] c = "D" -> "d"
    [] c = "E" -> "e" [] c = "F" -> "f" [] c = "G" -> "g" [] c = "H" -> "h"
    [] c = "I" -> "i" [] c = "J" -> "j" [] c = "K" -> "k" [] c = "L" -> "l"
    [] c = "M" -> "m" [] c = "N" -> "n" [] c = "O" -> "o" [] c = "P" -> "p"
    [] c = "Q" -> "q" [] c = "R" -> "r" [] c = "S" -> "s" [] c = "T" -> "t"
    [] c = "U" -> "u" [] c = "V" -> "v" [] c = "W" -> "w" [] c = "X" -> "x"
    [] c = "Y" -> "y" [] c = "Z" -> "z" [] OTHER -> c

RECURSIVE Lower(_)
Lower(s) ==
  IF Len(s) = 0 THEN "" ELSE LowerOf(Ch(s, 1)) \o Lower(Drop(s, 2))

\* int() of a non-empty string of digits
RECURSIVE DigitsToNat(_)
DigitsToNat(s) ==
  IF Len(s) = 0 THEN 0
  ELSE 10 * DigitsToNat(SubSeq(s, 1, Len(s) - 1)) + DigitValue(Ch(s, Len(s)))

RECURSIVE Pow10(_)
Pow10(n) == IF n = 0 THEN 1 ELSE 10 * Pow10(n - 1)

\* ------------------------------------------------------- field extractors

\* float(): the value of a matched <digits>[.<digits>] token with its sign, as
\* the exact decimal num / den with no trailing zero in the fraction
RECURSIVE StripTrailingZeros(_)
StripTrailingZeros(s) ==
  IF Len(s) > 0 /\ Ch(s, Len(s)) = "0"
  THEN StripTrailingZeros(SubSeq(s, 1, Len(s) - 1))
  ELSE s

ParseFloat(tok) ==
  LET neg  == StartsWith(tok, "-")
      body == IF neg THEN Drop(tok, 2) ELSE tok
      dot  == Find(body, ".", 1)
      ip   == IF dot = 0 THEN body ELSE SubSeq(body, 1, dot - 1)
      fp   == IF dot = 0 THEN "" ELSE StripTrailingZeros(Drop(body, dot + 1))
      mag  == DigitsToNat(ip \o fp)
  IN [num |-> IF neg THEN 0 - mag ELSE mag, den |-> Pow10(Len(fp))]

\* the last index of the greedy match of -?\d+\.?\d* (signed) or \d+\.?\d*
\* at index i of s, 0 when there is no match at i
NumberEnd(s, i, signed) ==
  LET d  == IF signed /\ Ch(s, i) = "-" THEN i + 1 ELSE i
      e1 == RunEnd(s, d, Digits)
  IN IF d > Len(s) \/ e1 < d THEN 0
     ELSE IF Ch(s, e1 + 1) = "." THEN RunEnd(s, e1 + 2, Digits) ELSE e1

\* whether \s*star (re.IGNORECASE) matches at index i of s
StarAt(s, i) ==
  LET k == RunEnd(s, i, Whitespace) + 1
  IN k + 3 <= Len(s) /\ Lower(SubSeq(s, k, k + 3)) = "star"

extract_rating(aria_label) ==
  IF aria_label = None \/ aria_label[1] = "" THEN None
  ELSE LET s == aria_label[1]
           I == {i \in 1..Len(s) :
                   /\ NumberEnd(s, i, FALSE) > 0
                   /\ StarAt(s, NumberEnd(s, i, FALSE) + 1)}
       IN IF I = {} THEN None
          ELSE LET i == SetMin(I)
               IN Some(ParseFloat(SubSeq(s, i, NumberEnd(s, i, FALSE))))

extract_reviews_count(text) ==
  IF text = None \/ text[1] = "" THEN None
  ELSE LET s   == text[1]
           cls == Digits \cup {","}
           I   == {i \in 1..Len(s) : Ch(s, i) \in cls}
       IN IF I = {} THEN None
          ELSE LET i   == SetMin(I)
                   grp == SubSeq(s, i, RunEnd(s, i, cls))
                   num == Remove(grp, ",")
               IN IF num = "" THEN None ELSE Some(DigitsToNat(num))

\* the index pairs <<first, last>> of the two floats of pattern
\* <lead>(-?\d+\.?\d*)<mid>(-?\d+\.?\d*) at its leftmost match in s
CoordinateMatch(s, lead, mid) ==
  LET ok(i) ==
        /\ StartsWithAt(s, lead, i)
        /\ LET a == i + Len(lead)
               e == NumberEnd(s, a, TRUE)
           IN /\ e > 0
              /\ StartsWithAt(s, mid, e + 1)
              /\ NumberEnd(s, e + 1 + Len(mid), TRUE) > 0
      I == {i \in 1..Len(s) : ok(i)}
  IN IF I = {} THEN None
     ELSE LET i == SetMin(I)
              a == i + Len(lead)
              e == NumberEnd(s, a, TRUE)
              b == e + 1 + Len(mid)
          IN Some([lat |-> ParseFloat(SubSeq(s, a, e)),
                   lng |-> ParseFloat(SubSeq(s, b, NumberEnd(s, b, TRUE)))])

extract_coordinates_from_url(url) ==
  IF url = None \/ url[1] = "" THEN None
  ELSE LET m1 == CoordinateMatch(url[1], "@", ",")
           m2 == CoordinateMatch(url[1], "!3d", "!4d")
       IN IF m1 # None THEN m1 ELSE m2

\* place_id=([a-zA-Z0-9_-]+) : the group at the leftmost match, or None
PlaceIdParam(s) ==
  LET lit == "place_id="
      I == {i \in 1..Len(s) :
              /\ StartsWithAt(s, lit, i)
              /\ Ch(s, i + Len(lit)) \in IdChars}
  IN IF I = {} THEN None
     ELSE LET a == SetMin(I) + Len(lit)
          IN Some(SubSeq(s, a, RunEnd(s, a, IdChars)))

\* /place/[^/]+/data=.*?1s([a-zA-Z0-9_-]+) : the group at the leftmost match
PlaceIdData(s) ==
  LET segEnd(i) ==
        LET a   == i + Len("/place/")
            bad == {k \in a..Len(s) : Ch(s, k) = "/"}
        IN IF bad = {} THEN Len(s) ELSE SetMin(bad) - 1
      \* the indices k of a "1s" that follows the data= of a match starting at i
      marks(i) ==
        IF ~ StartsWithAt(s, "/place/", i) THEN {}
        ELSE LET a == i + Len("/place/")
                 e == segEnd(i)
             IN IF e < a \/ ~ StartsWithAt(s, "/data=", e + 1) THEN {}
                ELSE {k \in (e + 1 + Len("/data="))..Len(s) :
                        /\ StartsWithAt(s, "1s", k)
                        /\ Ch(s, k + 2) \in IdChars
                        /\ \A j \in (e + 1 + Len("/data="))..(k - 1) :
                              Ch(s, j) # "\n"}
      I == {i \in 1..Len(s) : marks(i) # {}}
  IN IF I = {} THEN None
     ELSE LET a == SetMin(marks(SetMin(I))) + 2
          IN Some(SubSeq(s, a, RunEnd(s, a, IdChars)))

extract_place_id(url) ==
  IF url = None \/ url[1] = "" THEN None
  ELSE IF PlaceIdParam(url[1]) # None THEN PlaceIdParam(url[1])
       ELSE PlaceIdData(url[1])

\* re.sub(r'\s+', ' ', s) on a stripped s
RECURSIVE CollapseWhitespace(_)
CollapseWhitespace(s) ==
  IF Len(s) = 0 THEN ""
  ELSE IF Ch(s, 1) \in Whitespace
       THEN " " \o CollapseWhitespace(Drop(s, RunEnd(s, 1, Whitespace) + 1))
       ELSE Ch(s, 1) \o CollapseWhitespace(Drop(s, 2))

normalize_address(address) ==
  IF address = None \/ address[1] = "" THEN ""
  ELSE CollapseWhitespace(Strip(address[1]))

MinPhoneLength == 10

extract_phone(text) ==
  IF text = None \/ text[1] = "" THEN None
  ELSE LET cleaned == Keep(text[1], Digits \cup {"+"})
       IN IF Len(cleaned) < MinPhoneLength THEN None ELSE Some(cleaned)

Days ==
  <<"Monday", "Tuesday", "Wednesday", "Thursday", "Friday", "Saturday",
    "Sunday">>

\* dict[key] = value
DictSet(d, key, value) ==
  [k \in DOMAIN d \cup {key} |-> IF k = key THEN value ELSE d[k]]

EmptyDict == [k \in {} |-> None]

\* a turn that keeps the first continuation line of a day, not the last
HoursStep_keep_first(st, rawLine) ==
  LET line  == Strip(rawLine)
      found == {n \in 1..Len(Days) : StartsWith(line, Days[n])}
  IN IF found # {}
     THEN LET day        == Days[SetMin(found)]
              hours_part == Strip(Remove(line, day))
          IN [hours_dict  |-> IF hours_part # ""
                              THEN DictSet(st.hours_dict, day, hours_part)
                              ELSE st.hours_dict,
              current_day |-> Some(day)]
     ELSE IF /\ st.current_day # None
             /\ line # ""
             /\ st.current_day[1] \notin DOMAIN st.hours_dict
          THEN [st EXCEPT !.hours_dict = DictSet(@, st.current_day[1], line)]
          ELSE st

\* one turn of the loop of parse_hours over a line: st is the pair of
\* hours_dict and current_day (None before the first day header)
HoursStep(st, rawLine) ==
  LET line  == Strip(rawLine)
      found == {n \in 1..Len(Days) : StartsWith(line, Days[n])}
  IN IF found # {}
     THEN LET day        == Days[SetMin(found)]
              hours_part == Strip(Remove(line, day))
          IN [hours_dict  |-> IF hours_part # ""
                              THEN DictSet(st.hours_dict, day, hours_part)
                              ELSE st.hours_dict,
              current_day |-> Some(day)]
     ELSE IF st.current_day # None /\ line # ""
          THEN [st EXCEPT !.hours_dict = DictSet(@, st.current_day[1], line)]
          ELSE st

RECURSIVE HoursLoop(_, _)
HoursLoop(st, lines) ==
  IF lines = <<>> THEN st
  ELSE HoursLoop(HoursStep(st, Head(lines)), Tail(lines))

parse_hours(hours_text) ==
  IF hours_text = None \/ hours_text[1] = "" THEN EmptyDict
  ELSE HoursLoop([hours_dict |-> EmptyDict, current_day |-> None],
                 Split(hours_text[1], "\n")).hours_dict

\* ----------------------------------------------------------- card parser

\* {**a, **b}
DictMerge(a, b) ==
  [k \in DOMAIN a \cup DOMAIN b |-> IF k \in DOMAIN b THEN b[k] ELSE a[k]]

\* bool(s) of an optional string: neither None nor ""
Truthy(opt) == opt # None /\ opt[1] # ""

\* A result card as the browser shows it to parse_business_card:
\*   link    whether card.query_selector('a') finds the anchor
\*   text    card.inner_text()
\*   names   what link.query_selector(selector) gives for each of the four
\*           name_selectors, in order: None (no such element, or the lookup
\*           raises inside the inner try) or Some(inner text of the element)
\*   rating  None (no span[role="img"]) or Some(its aria-label, itself optional)
\*   href    the anchor's href attribute, optional
\*   raises  the sub-step whose browser call raises (the card was detached,
\*           the page closed), "none" when every call returns
CardSteps == {"query_link", "inner_text", "rating", "inner_html", "href"}

\* lines 54-65: the first selector whose element has non-blank text
SelectorTitle(card) ==
  LET hit == {n \in 1..Len(card.names) :
                card.names[n] # None /\ Strip(card.names[n][1]) # ""}
  IN IF hit = {} THEN None ELSE Some(Strip(card.names[SetMin(hit)][1]))

\* a fallback that takes any non-blank first line
FallbackTitle_any(card) ==
  LET potential_name == Strip(Split(card.text, "\n")[1])
  IN IF potential_name # "" THEN Some(potential_name) ELSE None

\* lines 68-76: the first line of the card's text, unless it looks like a
\* rating or a review count
FallbackTitle(card) ==
  LET potential_name == Strip(Split(card.text, "\n")[1])
  IN IF /\ potential_name # ""
        /\ Ch(potential_name, 1) \notin Digits
        /\ ~ Contains(potential_name, StarGlyph)
     THEN Some(potential_name)
     ELSE None

\* a if it is there, b otherwise
OrElse(a, b) == IF a # None THEN a ELSE b

CardTitle(card) == OrElse(SelectorTitle(card), FallbackTitle(card))

\* lines 98-118: one turn of the loop over the lines after the first
CardLineStep(data, rawLine) ==
  LET line     == Strip(rawLine)
      parts    == Split(line, MiddleDot)
      category == Strip(parts[1])
      d1 == IF /\ line # ""
               /\ "category" \notin DOMAIN data
               /\ Contains(line, MiddleDot)
               /\ category # ""
               /\ Ch(category, 1) \notin Digits
            THEN DictSet(data, "category", category)
            ELSE data
      priced == {n \in 1..Len(parts) : Contains(parts[n], "$")}
  IN IF line # "" /\ Contains(line, "$") /\ "priceLevel" \notin DOMAIN d1
     THEN DictSet(d1, "priceLevel", Strip(parts[SetMin(priced)]))
     ELSE d1

RECURSIVE CardLines(_, _)
CardLines(data, lines) ==
  IF lines = <<>> THEN data
  ELSE CardLines(CardLineStep(data, Head(lines)), Tail(lines))

SiteOrigin == "https://www.google.com"

\* lines 121-131
CardUrlFields(data, href) ==
  IF ~ Truthy(href) THEN data
  ELSE LET url    == IF StartsWith(href[1], "/")
                     THEN SiteOrigin \o href[1]
                     ELSE href[1]
           d1     == DictSet(DictSet(data, "url", url),
                             "placeId", extract_place_id(Some(url)))
           coords == extract_coordinates_from_url(Some(url))
       IN IF coords # None THEN DictSet(d1, "coordinates", coords[1]) ELSE d1

\* lines 83-88
CardRating(data, card) ==
  IF card.rating # None /\ Truthy(card.rating[1])
  THEN DictSet(data, "rating", extract_rating(card.rating[1]))
  ELSE data

\* lines 91-94
CardReviews(data, card) ==
  IF Contains(Lower(card.text), "review")
  THEN DictSet(data, "reviewsCount", extract_reviews_count(Some(card.text)))
  ELSE data

\* lines 82-134: the fields after the title
CardFields(title, card) ==
  CardUrlFields(
    CardLines(CardReviews(CardRating([title |-> title], card), card),
              Tail(Split(card.text, "\n"))),
    card.href)

\* lines 78-134
CardRecord(title, card) ==
  IF title = None THEN None ELSE Some(CardFields(title[1], card))

\* a parser that goes on with what it has when a browser call raises
parse_business_card_unguarded(card) ==
  IF ~ card.link THEN None ELSE CardRecord(CardTitle(card), card)

\* GoogleMapsParser.parse_business_card: Some(record) or None
parse_business_card(card) ==
  IF card.raises # "none" \/ ~ card.link THEN None
  ELSE CardRecord(CardTitle(card), card)

\* --------------------------------------------------------- detail parser

\* A detail page as the browser shows it to parse_business_details; each
\* field is what the element's query gives, None when there is no element:
\*   h1         inner text of the first h1
\*   rating     the aria-label (optional) of span[role="img"][aria-label*="star"]
\*   reviews    inner text of button[aria-label*="review"]
\*   address    inner text of button[data-item-id*="address"]
\*   phone      inner text of button[data-item-id*="phone"]
\*   website    the href (optional) of a[data-item-id*="authority"]
\*   category   inner text of button[jsaction*="category"]
\*   hours      None (no hours button) or Some(None) (button, no container
\*              after the click) or Some(Some(text of the container))
\*   plus_code  inner text of button[data-item-id*="oloc"]
\*   url        page.url
\*   raises     the step whose browser call raises ("wait_h1": the heading
\*              never shows within 5 s), "none" when every call returns
DetailSteps ==
  <<"wait_h1", "title", "rating", "reviews", "address", "phone", "website",
    "category", "hours", "plus_code", "url">>

\* what one step of parse_business_details adds to data
DetailStep(data, step, page) ==
  CASE step = "wait_h1" -> data
    [] step = "title" ->
         IF page.h1 # None THEN DictSet(data, "title", page.h1[1]) ELSE data
    [] step = "rating" ->
         IF page.rating # None
         THEN DictSet(data, "rating", extract_rating(page.rating[1]))
         ELSE data
    [] step = "reviews" ->
         IF page.reviews # None
         THEN DictSet(data, "reviewsCount", extract_reviews_count(page.reviews))
         ELSE data
    [] step = "address" ->
         IF page.address # None
         THEN DictSet(data, "address", normalize_address(page.address))
         ELSE data
    [] step = "phone" ->
         IF page.phone # None
         THEN DictSet(data, "phone", extract_phone(page.phone))
         ELSE data
    [] step = "website" ->
         IF page.website # None
         THEN DictSet(data, "website", page.website[1])
         ELSE data
    [] step = "category" ->
         IF page.category # None
         THEN DictSet(data, "category", page.category[1])
         ELSE data
    [] step = "hours" ->
         IF page.hours # None /\ page.hours[1] # None
         THEN DictSet(data, "hours", parse_hours(page.hours[1]))
         ELSE data
    [] step = "plus_code" ->
         IF page.plus_code # None
         THEN DictSet(data, "plusCode", page.plus_code[1])
         ELSE data
    [] step = "url" ->
         LET d1 == DictSet(DictSet(data, "url", page.url),
                           "placeId", extract_place_id(Some(page.url)))
             coords == extract_coordinates_from_url(Some(page.url))
         IN IF coords # None THEN DictSet(d1, "coordinates", coords[1])
            ELSE d1

\* the steps run in order until one raises: the except clause returns data
\* as it stands
\* an except clause that gives up what was gathered
on_failure_nothing(data) == EmptyDict

\* parse_business_details, lines 228-230: the except clause returns data
on_failure(data) == data

RECURSIVE DetailRun(_, _, _)
DetailRun(data, n, page) ==
  IF n > Len(DetailSteps) THEN data
  ELSE IF DetailSteps[n] = page.raises THEN on_failure(data)
  ELSE DetailRun(DetailStep(data, DetailSteps[n], page), n + 1, page)

\* GoogleMapsParser.parse_business_details (deep_scrape = False, as
\* deep_scrape_businesses calls it): always a dict
parse_business_details(page) == DetailRun(EmptyDict, 1, page)

\* ------------------------------------------------- what the browser shows

NoNames == <<None, None, None, None>>

\* a card with every field, title by the first selector, place p1
CardJoe ==
  [link |-> TRUE, raises |-> "none",
   text |-> "Joe Cafe\n4.5 stars (1,250 reviews)\nCafe | $$ | 1 Main St",
   names |-> <<Some(" Joe Cafe "), None, None, None>>,
   rating |-> Some(Some("4.5 stars")),
   href |-> Some("/maps/place/Joe/data=!4m7!1sp1!3d40.7!4d-74.00")]

\* the same place p1 listed a second time (a sponsored entry): blank first
\* selector, title by the second, place id in the query string
CardJoeAd ==
  [link |-> TRUE, raises |-> "none",
   text |-> "Joe Cafe - Ad\n4 reviews",
   names |-> <<Some("  "), Some("Joe Cafe - Ad"), None, None>>,
   rating |-> Some(None),
   href |-> Some("https://maps.google.com/?cid=7&place_id=p1")]

\* no selector resolves: title by the first line of the text, place p2
CardTea ==
  [link |-> TRUE, raises |-> "none",
   text |-> "Tea Bar\n10 stars\n3 Tea houses | Open",
   names |-> NoNames,
   rating |-> Some(Some("10 stars")),
   href |-> Some("/maps/place/Tea/data=!1sp2")]

\* a card whose url holds no place id
CardAnon ==
  [link |-> TRUE, raises |-> "none",
   text |-> "Anon",
   names |-> <<None, None, Some("Anon"), None>>,
   rating |-> None,
   href |-> Some("/maps/search/anon/@40.7,-74")]

\* an anchor with no href: no url, no place id
CardBare ==
  [link |-> TRUE, raises |-> "none",
   text |-> "Bare\nBar | $",
   names |-> <<None, None, None, Some("Bare")>>,
   rating |-> None,
   href |-> None]

\* no selector resolves and the first line is a rating: rejected
CardRatingFirst ==
  [link |-> TRUE, raises |-> "none",
   text |-> "4.5 stars\nJoe Cafe",
   names |-> NoNames,
   rating |-> Some(Some("4.5 stars")),
   href |-> Some("/maps/place/Joe/data=!1sp1")]

\* a card detached from the page: reading its text raises
CardDetached ==
  [link |-> TRUE, raises |-> "inner_text",
   text |-> "Gone",
   names |-> <<Some("Gone"), None, None, None>>,
   rating |-> None,
   href |-> Some("/maps/place/Gone/data=!1sp3")]

\* a card with no anchor
CardNoLink ==
  [link |-> FALSE, raises |-> "none",
   text |-> "Header",
   names |-> NoNames,
   rating |-> None,
   href |-> None]

Cards ==
  {CardJoe, CardJoeAd, CardTea, CardAnon, CardBare, CardRatingFirst,
   CardDetached, CardNoLink}

\* the detail page of place p1, every element there
PageJoe ==
  [raises |-> "none",
   h1 |-> Some("Joe Cafe"),
   rating |-> Some(Some("4.5 stars")),
   reviews |-> Some("1,250 reviews"),
   address |-> Some(" 1  Main St\nNew York "),
   phone |-> Some("(212) 555-0100"),
   website |-> Some(Some("https://joe.example")),
   category |-> Some("Cafe"),
   hours |-> Some(Some("Monday\n9AM-5PM\nTuesday\nClosed")),
   plus_code |-> Some("Q2+4F New York"),
   url |-> "https://www.google.com/maps/place/Joe/data=!4m7!1sp1!3d40.7!4d-74"]

\* a page whose heading never shows
PageNoHeading ==
  [raises |-> "wait_h1",
   h1 |-> None, rating |-> None, reviews |-> None, address |-> None,
   phone |-> None, website |-> None, category |-> None, hours |-> None,
   plus_code |-> None,
   url |-> "https://www.google.com/sorry/index"]

\* a page whose first h1 is an empty (hidden) heading, whose star label holds
\* no number, whose phone is an extension, and whose final url has the
\* @lat,lng segment between /place/<name> and /data=
PageSparse ==
  [raises |-> "none",
   h1 |-> Some(""),
   rating |-> Some(Some("Top star rated")),
   reviews |-> None,
   address |-> None,
   phone |-> Some("ext 12"),
   website |-> Some(None),
   category |-> None,
   hours |-> Some(None),
   plus_code |-> None,
   url |-> "https://www.google.com/maps/place/Tea/@40.7,-74.00,17z/data=!1sp2"]

\* a page whose hours button cannot be clicked
PageHoursFail ==
  [raises |-> "hours",
   h1 |-> Some("Tea Bar"),
   rating |-> None,
   reviews |-> Some("12 reviews"),
   address |-> Some("3 Tea Rd"),
   phone |-> None,
   website |-> None,
   category |-> Some("Tea house"),
   hours |-> Some(Some("Monday 9-5")),
   plus_code |-> Some("Q2+4G"),
   url |-> "https://www.google.com/maps/place/Tea/data=!1sp2"]

DetailPages == {PageJoe, PageNoHeading, PageSparse, PageHoursFail}

\* ---------------------------------------------------------------- bounds

\* the largest max_results a run asks for
MaxResults == 2

\* the most cards query_selector_all returns
MaxCards == 3

\* the scroll heights the results container reports are 1..MaxHeight
MaxHeight == 2

\* ------------------------------------------------ the traversal controller

VARIABLES
  pc,                  \* where scrape stands
  max_results,         \* argument of scrape
  deep_scrape,         \* argument of scrape
  context,             \* self.context: "none", "open", "closed" or "torn"
  page,                \* self.page: "none" or "open"
  init_how,            \* how initialize ended
  search_success,      \* None before search returns, then Some(its result)
  max_scrolls,         \* argument of scroll_results
  previous_height,     \* local of scroll_results
  scroll_count,        \* local of scroll_results
  no_change_count,     \* local of scroll_results
  heights,             \* the heights scroll_results read last, in order
  scroll_steps,        \* the turns of its loop that have begun
  scroll_ok,           \* None before scroll_results returns, then Some(result)
  cards,               \* local of extract_business_cards
  parsed,              \* what parse_business_card gives for each card listed
  i,                   \* index of the next card, 1-based
  businesses,          \* the list extraction builds and deep scrape reads
  seen_place_ids,      \* local of extract_business_cards
  admitted_from,       \* for each entry of businesses, the index of its card
  j,                   \* index of the next record of deep_scrape_businesses
  detailed_businesses, \* local of deep_scrape_businesses
  origin,              \* for each entry of detailed_businesses, the index
                       \* of the record it was appended for
  visit_how,           \* for each record deep scrape handled, how it went
                       \* and the detail record its page gave
  pending,             \* None, or Some(list) once a return statement ran
  result,              \* what scrape delivered to its caller
  trace,               \* the phases the run entered, in order
  rl_max_requests,     \* RateLimiter.max_requests
  rl_time_window,      \* RateLimiter.time_window
  rl_requests,         \* RateLimiter.requests
  clock,               \* the event loop's time()
  rl_completed,        \* the times at which wait_if_needed returned
  fn,                  \* the parser or extractor called on its own, or "none"
  arg,                 \* its argument
  ret                  \* None, then Some(what it returned)

rl_vars == <<rl_max_requests, rl_time_window, rl_requests, clock, rl_completed>>

call_vars == <<fn, arg, ret>>

scroll_vars ==
  <<max_scrolls, previous_height, scroll_count, no_change_count, heights,
    scroll_steps>>

extract_vars == <<cards, parsed, i, seen_place_ids, admitted_from>>

deep_vars == <<j, detailed_businesses, origin, visit_how>>

session_vars == <<context, page, init_how>>

args == <<max_results, deep_scrape>>

\* record.get('url') is truthy
HasUrl(record) == "url" \in DOMAIN record /\ record.url # ""

\* record.get('placeId'): None when the key is missing or holds None
PlaceIdOf(record) ==
  IF "placeId" \in DOMAIN record THEN record.placeId ELSE None

CardSeqs == UNION {[1..n -> Cards] : n \in 0..MaxCards}

ScrollCeiling == 100

\* a budget without the ceiling
needed_scrolls_unbounded(n) == (n \div 5) + 10

\* scrape, line 353
needed_scrolls(n) ==
  LET want == (n \div 5) + 10
  IN IF want < ScrollCeiling THEN want ELSE ScrollCeiling

NoChangeLimit == 3

NoResult == [kind |-> "none", value |-> <<>>]

InitScrape ==
  /\ pc = "initialize"
  /\ max_results \in 1..MaxResults
  /\ deep_scrape \in BOOLEAN
  /\ context = "none"
  /\ page = "none"
  /\ init_how = "none"
  /\ search_success = None
  /\ max_scrolls = 0
  /\ previous_height = 0
  /\ scroll_count = 0
  /\ no_change_count = 0
  /\ heights = <<>>
  /\ scroll_steps = 0
  /\ scroll_ok = None
  /\ cards = <<>>
  /\ parsed = <<>>
  /\ i = 1
  /\ businesses = <<>>
  /\ seen_place_ids = {}
  /\ admitted_from = <<>>
  /\ j = 1
  /\ detailed_businesses = <<>>
  /\ origin = <<>>
  /\ visit_how = <<>>
  /\ pending = None
  /\ result = NoResult
  /\ trace = <<>>

\* no function is called on its own
NoCall ==
  /\ fn = "none"
  /\ arg = None
  /\ ret = None

\* scrape builds no RateLimiter ("Removed rate limiter for faster scraping")
RLUnused ==
  /\ rl_max_requests = 0
  /\ rl_time_window = 0
  /\ rl_requests = <<>>
  /\ clock = 0
  /\ rl_completed = <<>>

\* scrape, line 344: initialize() creates the context, injects the stealth
\* script and opens the page; a failure of any of the three calls is caught
\* by scrape's except clause, which returns []
Initialize ==
  /\ pc = "initialize"
  /\ \E how \in {"ok", "new_context_raises", "add_init_script_raises",
                 "new_page_raises"} :
       /\ init_how' = how
       /\ context' = IF how = "new_context_raises" THEN "none" ELSE "open"
       /\ page' = IF how = "ok" THEN "open" ELSE "none"
       /\ pc' = IF how = "ok" THEN "search" ELSE "finally"
       /\ pending' = IF how = "ok" THEN None ELSE Some(<<>>)
  /\ UNCHANGED <<args, search_success, scroll_vars, scroll_ok, extract_vars,
                 businesses, deep_vars, result, trace, rl_vars,
                 call_vars>>

\* what the page does to search()
SearchOutcomes ==
  {"goto_raises", "no_container", "no_results", "captcha", "ok"}

\* GoogleMapsScraper.search: every failure is caught and gives False
search(outcome) == outcome = "ok"

\* scrape, lines 347-354
Search ==
  /\ pc = "search"
  /\ \E outcome \in SearchOutcomes :
       /\ search_success' = Some(search(outcome))
       /\ IF search(outcome)
          THEN /\ pc' = "scroll"
               /\ max_scrolls' = needed_scrolls(max_results)
               /\ pending' = None
          ELSE /\ pc' = "finally"
               /\ pending' = Some(<<>>)
               /\ UNCHANGED max_scrolls
  /\ trace' = Append(trace, "search")
  /\ UNCHANGED <<args, session_vars, previous_height, scroll_count,
                 no_change_count, heights, scroll_steps, scroll_ok,
                 extract_vars, businesses,
                 deep_vars, result, rl_vars,
                 call_vars>>

\* scroll_results returns ok: lines 184, 221 and 225
ScrollReturn(ok) ==
  /\ scroll_ok' = Some(ok)
  /\ pc' = "scroll_done"

\* a test that lets one more unchanged step pass
stabilised_late(count) == count > NoChangeLimit

\* scroll_results, line 205
stabilised(count) == count >= NoChangeLimit

\* the heights read last: as many as it takes to see NoChangeLimit steps
latest(hs) == IF Len(hs) > NoChangeLimit + 1 THEN Tail(hs) ELSE hs

\* scroll_results, lines 180-190
ScrollBegin ==
  /\ pc = "scroll"
  /\ \/ \E how \in {"query_raises", "no_container", "evaluate_raises"} :
          /\ ScrollReturn(FALSE)
          /\ UNCHANGED <<previous_height, heights>>
     \/ \E h \in 1..MaxHeight :
          /\ previous_height' = h
          /\ heights' = <<h>>
          /\ pc' = "scroll_loop"
          /\ UNCHANGED scroll_ok
  /\ scroll_count' = 0
  /\ no_change_count' = 0
  /\ scroll_steps' = 0
  /\ trace' = Append(trace, "scroll")
  /\ UNCHANGED <<args, session_vars, search_success, max_scrolls,
                 extract_vars, businesses, deep_vars, pending, result,
                 rl_vars,
                 call_vars>>

\* scroll_results, lines 192-219: one turn of the loop
ScrollStep ==
  /\ pc = "scroll_loop"
  /\ scroll_count < max_scrolls
  /\ scroll_steps' = scroll_steps + 1
  /\ \/ \* a browser call of the turn raises
        /\ ScrollReturn(FALSE)
        /\ UNCHANGED <<previous_height, scroll_count, no_change_count,
                       heights>>
     \/ \E new_height \in 1..MaxHeight, end_message \in BOOLEAN :
          /\ heights' = latest(Append(heights, new_height))
          /\ no_change_count' = IF new_height = previous_height
                                THEN no_change_count + 1
                                ELSE 0
          /\ IF new_height = previous_height /\ stabilised(no_change_count')
             THEN /\ ScrollReturn(TRUE)
                  /\ UNCHANGED <<previous_height, scroll_count>>
             ELSE /\ previous_height' = new_height
                  /\ scroll_count' = scroll_count + 1
                  /\ IF end_message
                     THEN ScrollReturn(TRUE)
                     ELSE UNCHANGED <<pc, scroll_ok>>
  /\ UNCHANGED <<args, session_vars, search_success, max_scrolls,
                 extract_vars, businesses, deep_vars, pending, result, trace,
                 rl_vars,
                 call_vars>>

\* scroll_results, lines 192 and 221: the budget is spent
ScrollExhausted ==
  /\ pc = "scroll_loop"
  /\ scroll_count >= max_scrolls
  /\ ScrollReturn(TRUE)
  /\ UNCHANGED <<args, session_vars, search_success, scroll_vars,
                 extract_vars, businesses, deep_vars, pending, result, trace,
                 rl_vars,
                 call_vars>>

\* scrape, line 354: the result of scroll_results is not looked at; its
\* locals are gone and extract_business_cards is next
ScrollReturned ==
  /\ pc = "scroll_done"
  /\ pc' = "extract"
  /\ previous_height' = 0
  /\ scroll_count' = 0
  /\ no_change_count' = 0
  /\ heights' = <<>>
  /\ scroll_steps' = 0
  /\ UNCHANGED <<args, session_vars, search_success, max_scrolls, scroll_ok,
                 extract_vars, businesses, deep_vars, pending, result, trace,
                 rl_vars,
                 call_vars>>

\* parse_business_card on each card the browser can show
ParsedCard == [c \in Cards |-> parse_business_card(c)]

\* a limit test that never stops the loop
limit_reached_never(list, limit) == FALSE

\* a limit test that stops one record late
limit_reached_late(list, limit) == Len(list) > limit

\* extract_business_cards, line 248
limit_reached(list, limit) == Len(list) >= limit

\* a duplicate test that also drops every record without a placeId
is_duplicate_or_absent(place_id, seen) ==
  place_id = None \/ place_id[1] \in seen

\* a duplicate test that lets every record through
is_duplicate_never(place_id, seen) == FALSE

\* extract_business_cards, line 260
is_duplicate(place_id, seen) == place_id # None /\ place_id[1] \in seen

\* an admission that puts the record at the head of the list
admit_first(list, business) == <<business>> \o list

\* extract_business_cards, line 266
admit(list, business) == Append(list, business)

\* extract_business_cards, lines 237-245: the cards of the page are listed; a
\* raising query_selector_all is caught and the (empty) list returned. What
\* the parser gives for a card depends on the card alone, and is set down
\* here for each card listed, as line 255 will find it
ExtractQuery ==
  /\ pc = "extract"
  /\ \/ /\ cards' = <<>>
        /\ parsed' = <<>>
        /\ pc' = "extract_done"
     \/ \E cs \in CardSeqs :
          /\ cards' = cs
          /\ parsed' = [n \in 1..Len(cs) |-> ParsedCard[cs[n]]]
          /\ pc' = "extract_loop"
  /\ i' = 1
  /\ businesses' = <<>>
  /\ seen_place_ids' = {}
  /\ admitted_from' = <<>>
  /\ trace' = Append(trace, "extract")
  /\ UNCHANGED <<args, session_vars, search_success, scroll_vars, scroll_ok,
                 deep_vars, pending, result, rl_vars,
                 call_vars>>

\* extract_business_cards, lines 247-266: one turn of the loop
ExtractStep ==
  /\ pc = "extract_loop"
  /\ i <= Len(cards)
  /\ IF limit_reached(businesses, max_results)
     THEN /\ pc' = "extract_done"
          /\ UNCHANGED <<i, businesses, seen_place_ids, admitted_from>>
     ELSE \E business \in {parsed[i]} :
          \E place_id \in {IF business = None THEN None
                           ELSE PlaceIdOf(business[1])} :
             /\ i' = i + 1
             /\ pc' = pc
             /\ IF business = None \/ is_duplicate(place_id, seen_place_ids)
                THEN UNCHANGED <<businesses, seen_place_ids, admitted_from>>
                ELSE /\ businesses' = admit(businesses, business[1])
                     /\ admitted_from' = Append(admitted_from, i)
                     /\ seen_place_ids' =
                          IF place_id # None
                          THEN seen_place_ids \cup {place_id[1]}
                          ELSE seen_place_ids
  /\ UNCHANGED <<args, session_vars, search_success, scroll_vars, scroll_ok,
                 cards, parsed, deep_vars, pending, result, trace, rl_vars,
                 call_vars>>

\* extract_business_cards, lines 247 and 271-272: no card is left
ExtractExhausted ==
  /\ pc = "extract_loop"
  /\ i > Len(cards)
  /\ pc' = "extract_done"
  /\ UNCHANGED <<args, session_vars, search_success, scroll_vars, scroll_ok,
                 extract_vars, businesses, deep_vars, pending, result, trace,
                 rl_vars,
                 call_vars>>

\* scrape, lines 357-366: extract_business_cards has returned businesses
ExtractReturn ==
  /\ pc = "extract_done"
  /\ cards' = <<>>
  /\ parsed' = <<>>
  /\ i' = 1
  /\ seen_place_ids' = {}
  /\ admitted_from' = <<>>
  /\ IF deep_scrape /\ businesses # <<>>
     THEN /\ pc' = "deep"
          /\ trace' = Append(trace, "deep")
          /\ UNCHANGED pending
     ELSE /\ pc' = "finally"
          /\ pending' = Some(businesses)
          /\ UNCHANGED trace
  /\ UNCHANGED <<args, session_vars, search_success, scroll_vars, scroll_ok,
                 businesses, deep_vars, result, rl_vars,
                 call_vars>>

\* deep_scrape_businesses, line 307
merge(business, detailed_data) == DictMerge(business, detailed_data)

\* deep_scrape_businesses, lines 291-319: one turn of the loop for a record.
\* nav is what page.goto does, shown the page the browser ends on, settle what
\* the closing page.wait_for_timeout(500) does.  out lists what the turn
\* appends to detailed_businesses.
\* lines 304-319, once parse_business_details has returned detailed_data
visited(business, detailed_data, how, settle) ==
  IF settle = "raises"
  THEN \* the append of line 308 has happened; the except clause appends the
       \* record once more
       [out |-> <<merge(business, detailed_data), business>>,
        how |-> how, detail |-> detailed_data]
  ELSE [out |-> <<merge(business, detailed_data)>>,
        how |-> how, detail |-> detailed_data]

\* how parse_business_details ended on the page shown
details_how(shown) ==
  IF shown.raises = "wait_h1" THEN "heading_timeout"
  ELSE IF shown.raises # "none" THEN "partial_details"
  ELSE "merged"

\* a visit that loses the record when the navigation raises
deep_visit_dropping(business, nav, shown, settle) ==
  IF ~ HasUrl(business)
  THEN [out |-> <<business>>, how |-> "no_url", detail |-> EmptyDict]
  ELSE IF nav = "raises"
  THEN [out |-> <<>>, how |-> "goto_raised", detail |-> EmptyDict]
  ELSE visited(business, parse_business_details(shown), details_how(shown),
               settle)

deep_visit(business, nav, shown, settle) ==
  IF ~ HasUrl(business)
  THEN [out |-> <<business>>, how |-> "no_url", detail |-> EmptyDict]
  ELSE IF nav = "raises"
  THEN [out |-> <<business>>, how |-> "goto_raised", detail |-> EmptyDict]
  ELSE visited(business, parse_business_details(shown), details_how(shown),
               settle)

\* a loop that takes the records last to first
record_at_reversed(list, turn) == list[Len(list) + 1 - turn]

\* deep_scrape_businesses, line 290: the record of the loop's turn
record_at(list, turn) == list[turn]

\* deep_scrape_businesses, lines 290-319
DeepVisit ==
  /\ pc = "deep"
  /\ j <= Len(businesses)
  /\ \E nav \in {"ok", "raises"}, shown \in DetailPages,
        settle \in {"ok", "raises"} :
       \E business \in {record_at(businesses, j)} :
       \E v \in {deep_visit(business, nav, shown, settle)} :
          /\ detailed_businesses' = detailed_businesses \o v.out
          /\ origin' = origin \o [n \in 1..Len(v.out) |-> j]
          /\ visit_how' = Append(visit_how, [how |-> v.how, detail |-> v.detail,
                                             business |-> business])
  /\ j' = j + 1
  /\ UNCHANGED <<args, session_vars, search_success, scroll_vars, scroll_ok,
                 extract_vars, businesses, pc, pending, result, trace,
                 rl_vars,
                 call_vars>>

\* deep_scrape_businesses, lines 321-322, and scrape, lines 364-366: the
\* list built is what scrape returns (businesses keeps the list that was
\* passed in, for the record of the visits to refer to)
DeepReturn ==
  /\ pc = "deep"
  /\ j > Len(businesses)
  /\ pending' = Some(detailed_businesses)
  /\ pc' = "finally"
  /\ UNCHANGED <<args, session_vars, search_success, scroll_vars, scroll_ok,
                 extract_vars, businesses, deep_vars, result, trace, rl_vars,
                 call_vars>>

\* how context.close() can end: it closes the context, or the session was
\* torn down under the run (the hosting runner's timeout) and the call either
\* returns all the same or raises
CloseOutcomes == {"closed", "torn_tolerated", "torn_raises"}

\* GoogleMapsScraper.close, lines 88-89: the context after close()
\* a close() that leaves the context as it is
close_nothing(ctx, how) == ctx

close(ctx, how) ==
  IF ctx = "none" THEN "none"
  ELSE IF how = "closed" THEN "closed" ELSE "torn"

\* scrape, lines 372-373: the finally clause, then the return (or the raise
\* of what close() raised) reaches the caller
Finally ==
  /\ pc = "finally"
  /\ \E how \in CloseOutcomes :
       /\ context' = close(context, how)
       /\ result' = IF context # "none" /\ how = "torn_raises"
                    THEN [kind |-> "raised", value |-> <<>>]
                    ELSE [kind |-> "returned", value |-> pending[1]]
  /\ pc' = "done"
  /\ UNCHANGED <<args, page, init_how, search_success, scroll_vars, scroll_ok,
                 extract_vars, businesses, deep_vars, pending, trace,
                 rl_vars,
                 call_vars>>

\* ------------------------------------------------------------ RateLimiter

MaxRequests == 2
MaxWindow == 3
MaxTime == 6
MaxCalls == 4

\* RateLimiter.__init__, utils.py lines 182-185; the scraper stays unused
InitRL ==
  /\ InitScrape
  /\ max_results = 1
  /\ deep_scrape = FALSE
  /\ rl_max_requests \in 1..MaxRequests
  /\ rl_time_window \in 1..MaxWindow
  /\ rl_requests = <<>>
  /\ clock = 0
  /\ rl_completed = <<>>
  /\ NoCall

scrape_vars ==
  <<pc, args, session_vars, search_success, scroll_vars, scroll_ok, extract_vars,
    businesses, deep_vars, pending, result, trace>>

\* utils.py lines 192-193: the recorded times still inside the window
recent(requests, now, time_window) ==
  SelectSeq(requests, LAMBDA req_time : now - req_time < time_window)

\* utils.py lines 196-199: how long the call sleeps
sleep_time(requests, now, max_requests, time_window) ==
  IF Len(requests) >= max_requests
  THEN LET wait == time_window - (now - requests[1])
       IN IF wait > 0 THEN wait ELSE 0
  ELSE 0

\* time passes between two calls of the one caller
Elapse ==
  /\ clock < MaxTime
  /\ clock' = clock + 1
  /\ UNCHANGED <<rl_max_requests, rl_time_window, rl_requests, rl_completed,
                 scrape_vars, call_vars>>

\* RateLimiter.wait_if_needed, utils.py lines 187-202, from the call to the
\* return: now is read once, before the sleep, and is what line 202 records
wait_if_needed ==
  /\ Len(rl_completed) < MaxCalls
  /\ clock <= MaxTime
  /\ \E now \in {clock} :
     \E kept \in {recent(rl_requests, now, rl_time_window)} :
       /\ clock' = now + sleep_time(kept, now, rl_max_requests, rl_time_window)
       /\ rl_requests' = Append(kept, now)
       /\ rl_completed' = Append(rl_completed, clock')
  /\ UNCHANGED <<rl_max_requests, rl_time_window, scrape_vars, call_vars>>

Next ==
  \/ Initialize
  \/ Search
  \/ ScrollBegin
  \/ ScrollStep
  \/ ScrollExhausted
  \/ ScrollReturned
  \/ ExtractQuery
  \/ ExtractStep
  \/ ExtractExhausted
  \/ ExtractReturn
  \/ DeepVisit
  \/ DeepReturn
  \/ Finally

vars ==
  <<pc, max_results, deep_scrape, context, page, init_how, search_success,
    max_scrolls, previous_height, scroll_count, no_change_count, heights,
    scroll_steps, scroll_ok,
    cards, parsed, i, businesses, seen_place_ids, admitted_from, j,
    detailed_businesses, origin, visit_how, pending, result, trace,
    rl_max_requests, rl_time_window, rl_requests, clock, rl_completed,
    fn, arg, ret>>

Init == InitScrape /\ RLUnused /\ NoCall

Spec == Init /\ [][Next]_vars

NextRL ==
  \/ Elapse
  \/ wait_if_needed

SpecRL == InitRL /\ [][NextRL]_vars

\* ------------------------------------- parsers and extractors on their own

\* the most lines of an hours text
MaxHoursLines == 4

RECURSIVE Join(_, _)
Join(lines, sep) ==
  IF lines = <<>> THEN ""
  ELSE IF Len(lines) = 1 THEN lines[1]
  ELSE lines[1] \o sep \o Join(Tail(lines), sep)

\* lines an hours container shows
HoursLines ==
  {"Monday", "Monday 10AM-4PM", "Tuesday", "9AM-5PM", "Closed", " "}

HoursTexts ==
  {Join(ls, "\n") :
     ls \in UNION {[1..n -> HoursLines] : n \in 0..MaxHoursLines}}

\* texts a phone button shows
PhoneTexts ==
  {"", "12345", "ext 12", "(212) 555-0100", "2125550100", "+1 212 555 0100",
   "+123456789", "+12345678", "1+212+555+01", "212-555-0100 +",
   "Call 212 555 0100 now", "tel:+44 20 7946 0958"}

\* first lines and bodies of a card's text
CardTexts ==
  {"", "4.5", " 4.5 stars (12)", "*4.5", " * 4.5 (12 reviews)",
   "4.5\nJoe Cafe", "*\nJoe Cafe\nCafe | $$", "Joe Cafe\n4.5 stars",
   "Top * rated", "No. 1 Diner\n12 reviews"}

\* what the four name selectors give
CardNames ==
  {NoNames, <<Some("  "), None, Some(""), None>>,
   <<None, None, Some(" Joe Cafe "), None>>, <<Some("4 Guys"), None, None, None>>}

\* cards beyond those of Cards
CardInputs ==
  Cards \cup
    [link : BOOLEAN, text : CardTexts, names : CardNames, rating : {None},
     href : {None, Some("/maps/place/X/data=!1sp9")},
     raises : {"none", "href"}]

\* the fixture pages, each with the failure put at every step in turn
DetailInputs ==
  {[shown EXCEPT !.raises = r] :
     shown \in DetailPages,
     r \in {"none"} \cup {DetailSteps[n] : n \in 1..Len(DetailSteps)}}

\* the largest max_results a budget is computed for: past the 450 from
\* which the ceiling applies
MaxRequested == 500

InitPure ==
  /\ InitScrape
  /\ max_results = 1
  /\ deep_scrape = FALSE
  /\ RLUnused
  /\ ret = None
  /\ \/ fn = "parse_business_card" /\ arg \in CardInputs
     \/ fn = "parse_business_details" /\ arg \in DetailInputs
     \/ fn = "needed_scrolls" /\ arg \in 1..MaxRequested
     \/ fn = "parse_hours" /\ arg \in {None} \cup {Some(t) : t \in HoursTexts}
     \/ fn = "extract_phone" /\ arg \in {None} \cup {Some(t) : t \in PhoneTexts}

\* parser.py line 23: the call and its return
CallParseBusinessCard ==
  /\ fn = "parse_business_card"
  /\ ret = None
  /\ ret' = Some(parse_business_card(arg))
  /\ UNCHANGED <<fn, arg, scrape_vars, rl_vars>>

\* parser.py line 140: the call and its return
CallParseBusinessDetails ==
  /\ fn = "parse_business_details"
  /\ ret = None
  /\ ret' = Some(parse_business_details(arg))
  /\ UNCHANGED <<fn, arg, scrape_vars, rl_vars>>

\* scraper.py line 353: the budget scrape computes from max_results
CallNeededScrolls ==
  /\ fn = "needed_scrolls"
  /\ ret = None
  /\ ret' = Some(needed_scrolls(arg))
  /\ UNCHANGED <<fn, arg, scrape_vars, rl_vars>>

\* utils.py line 131: the call and its return
CallParseHours ==
  /\ fn = "parse_hours"
  /\ ret = None
  /\ ret' = Some(parse_hours(arg))
  /\ UNCHANGED <<fn, arg, scrape_vars, rl_vars>>

\* utils.py line 33: the call and its return
CallExtractPhone ==
  /\ fn = "extract_phone"
  /\ ret = None
  /\ ret' = Some(extract_phone(arg))
  /\ UNCHANGED <<fn, arg, scrape_vars, rl_vars>>

NextPure ==
  \/ CallParseBusinessCard
  \/ CallParseBusinessDetails
  \/ CallNeededScrolls
  \/ CallParseHours
  \/ CallExtractPhone

SpecPure == InitPure /\ [][NextPure]_vars

\* ---------------------------------------------------- scroll_results alone

\* the largest budget scroll_results is called with
MaxScrolls == 5

\* scrape after a search that succeeded, about to call scroll_results with
\* some budget
InitScroll ==
  /\ pc = "scroll"
  /\ max_results = 1
  /\ deep_scrape = FALSE
  /\ context = "open"
  /\ page = "open"
  /\ init_how = "ok"
  /\ search_success = Some(TRUE)
  /\ max_scrolls \in 0..MaxScrolls
  /\ previous_height = 0
  /\ scroll_count = 0
  /\ no_change_count = 0
  /\ heights = <<>>
  /\ scroll_steps = 0
  /\ scroll_ok = None
  /\ cards = <<>>
  /\ parsed = <<>>
  /\ i = 1
  /\ businesses = <<>>
  /\ seen_place_ids = {}
  /\ admitted_from = <<>>
  /\ j = 1
  /\ detailed_businesses = <<>>
  /\ origin = <<>>
  /\ visit_how = <<>>
  /\ pending = None
  /\ result = NoResult
  /\ trace = <<"search">>
  /\ RLUnused
  /\ NoCall

NextScroll ==
  \/ ScrollBegin
  \/ ScrollStep
  \/ ScrollExhausted

\* every call scroll_results awaits returns or raises (the waits are timed),
\* so a turn that can be taken is taken
SpecScroll == InitScroll /\ [][NextScroll]_vars /\ WF_vars(NextScroll)

\* ------------------------------------------------------------- properties

OptionalKeys == {"rating", "reviewsCount", "placeId", "phone", "website"}

\* the record carries a value under the key (a key holding None carries none)
Present(record, key) ==
  /\ key \in DOMAIN record
  /\ key \in OptionalKeys => record[key] # None

Extracting == pc \in {"extract_loop", "extract_done"}

\* the card at position n parses to a record
Parseable(n) == parsed[n] # None

\* the placeId the card at position n derives, None when it derives none
DerivedId(n) ==
  IF Parseable(n) THEN PlaceIdOf(parsed[n][1]) ELSE None

\* the card at position n parses and repeats no earlier card's placeId
Admissible(n) ==
  /\ Parseable(n)
  /\ DerivedId(n) # None =>
       \A m \in 1..(n - 1) : DerivedId(m) # DerivedId(n)

DeepRan == \E n \in 1..Len(trace) : trace[n] = "deep"

\* the entries of the deep-scraped list that came from the visit of record n
EntriesOf(n) == {m \in 1..Len(detailed_businesses) : origin[m] = n}

\* C1: while and after extract_business_cards runs, at most one record of
\* the list carries a given present placeId, and that record is the parse of
\* the earliest card in document order that derives the placeId
C1_FirstSeenWins ==
  Extracting =>
    \A k \in 1..Len(businesses) :
      PlaceIdOf(businesses[k]) # None =>
        /\ \A m \in 1..Len(businesses) :
             m # k => PlaceIdOf(businesses[m]) # PlaceIdOf(businesses[k])
        /\ businesses[k] = parsed[admitted_from[k]][1]
        /\ \A n \in 1..(admitted_from[k] - 1) :
             DerivedId(n) # PlaceIdOf(businesses[k])

\* two cards derive the same placeId, both have been gone through, and the
\* earlier one is in the list
C1_Witness ==
  /\ pc = "extract_done"
  /\ \E n \in 1..Len(cards) : \E m \in (n + 1)..Len(cards) :
       /\ m < i
       /\ DerivedId(n) # None
       /\ DerivedId(n) = DerivedId(m)
       /\ \E k \in 1..Len(admitted_from) : admitted_from[k] = n

\* C2, as stated: with limit N and more than N parseable cards, extraction
\* gives exactly N records
C2_Original ==
  (pc = "extract_done"
     /\ Cardinality({n \in 1..Len(cards) : Parseable(n)}) > max_results)
  => Len(businesses) = max_results

\* C2, amended: with limit N and more than N cards that parse and repeat no
\* earlier card's placeId, extraction gives exactly N records, the parses of
\* the first N such cards in document order
C2_ExactlyLimit ==
  (pc = "extract_done"
     /\ Cardinality({n \in 1..Len(cards) : Admissible(n)}) > max_results)
  => /\ Len(businesses) = max_results
     /\ \A k \in 1..Len(businesses) :
          /\ Admissible(admitted_from[k])
          /\ businesses[k] = parsed[admitted_from[k]][1]
          /\ Cardinality({n \in 1..admitted_from[k] : Admissible(n)}) = k

\* more admissible cards than the limit, and extraction has stopped
C2_Witness ==
  /\ pc = "extract_done"
  /\ Cardinality({n \in 1..Len(cards) : Admissible(n)}) > max_results
  /\ Len(businesses) = max_results
  /\ i <= Len(cards)

\* C3: every record of the list scrape returns has a non-empty title
C3_TitleNonEmpty ==
  result.kind = "returned" =>
    \A k \in 1..Len(result.value) :
      /\ "title" \in DOMAIN result.value[k]
      /\ result.value[k].title # ""

\* C4: no two records of the list scrape returns carry the same present
\* placeId
C4_UniquePlaceId ==
  result.kind = "returned" =>
    \A k \in 1..Len(result.value) : \A m \in 1..Len(result.value) :
      (k # m /\ PlaceIdOf(result.value[k]) # None)
        => PlaceIdOf(result.value[k]) # PlaceIdOf(result.value[m])

\* C5: the record a detail visit merges is the right-biased union of the
\* partial record and the detail record, and no field that carried a value
\* in the partial record is left without one
C5_MergeKeepsFields ==
  \A n \in 1..Len(visit_how) :
    (visit_how[n].how \in {"merged", "partial_details", "heading_timeout"})
    => \E merged \in {detailed_businesses[SetMin(EntriesOf(n))]} :
         /\ DOMAIN merged = DOMAIN businesses[n] \cup DOMAIN visit_how[n].detail
         /\ \A key \in DOMAIN visit_how[n].detail :
              merged[key] = visit_how[n].detail[key]
         /\ \A key \in DOMAIN businesses[n] \ DOMAIN visit_how[n].detail :
              merged[key] = businesses[n][key]
         /\ \A key \in DOMAIN businesses[n] :
              Present(businesses[n], key) => Present(merged, key)

\* C6: a detail visit that fails (the navigation raises, or the heading
\* never shows) leaves the record in the output exactly as it was before the
\* deep scrape; every record gets its turn, and deep scrape returns only
\* once all have
C6_FailureKeepsRecord ==
  DeepRan =>
    /\ Len(visit_how) = j - 1
    /\ pc # "deep" => Len(visit_how) = Len(businesses)
    /\ \A n \in 1..Len(visit_how) :
         visit_how[n].how \in {"goto_raised", "heading_timeout"} =>
           /\ EntriesOf(n) # {}
           /\ \A m \in EntriesOf(n) : detailed_businesses[m] = businesses[n]

\* a visit failed, a later record was visited and merged, and scrape has
\* returned both
C6_Witness ==
  /\ pc = "done"
  /\ result.kind = "returned"
  /\ \E n \in 1..Len(visit_how) : \E m \in (n + 1)..Len(visit_how) :
       /\ visit_how[n].how \in {"goto_raised", "heading_timeout"}
       /\ visit_how[m].how = "merged"
       /\ result.value[SetMin(EntriesOf(n))] = businesses[n]

\* C7: when scrape is over, however it ended, the context created for the
\* run is no longer open
C7_SessionReleased ==
  pc = "done" =>
    /\ context # "open"
    /\ init_how # "new_context_raises" => context \in {"closed", "torn"}

\* scrape ended early, on a failed search, with the context closed
C7_Witness ==
  /\ pc = "done"
  /\ search_success = Some(FALSE)
  /\ context = "closed"

\* C8: when the search fails, scrape raises nothing, returns the empty list,
\* and neither scrolls, extracts nor visits a detail page
C8_SearchFailureEmpty ==
  (pc = "done" /\ search_success = Some(FALSE)) =>
    /\ result = [kind |-> "returned", value |-> <<>>]
    /\ trace = <<"search">>

\* C9: when the session cannot be created, scrape ends by raising
C9_InitFailureRaises ==
  (pc = "done" /\ init_how \notin {"none", "ok"}) => result.kind = "raised"

\* C10: of the wait_if_needed calls one caller makes in turn, no more than
\* max_requests return within any trailing time_window
C10_WindowBound ==
  \A k \in 1..Len(rl_completed) :
    Cardinality({m \in 1..k :
                   rl_completed[k] - rl_completed[m] < rl_time_window})
      <= rl_max_requests

Scrolling == pc \in {"scroll_loop", "scroll_done"}

\* the step that read heights[t + 1] found the height unchanged
UnchangedStep(t) == heights[t + 1] = heights[t]

\* the last three steps all found the height unchanged
StableNow ==
  /\ Len(heights) >= 4
  /\ \A t \in (Len(heights) - 3)..(Len(heights) - 1) : UnchangedStep(t)

\* C11: scroll_results begins at most max_scrolls turns; it goes on only
\* while the last 3 steps were not all without change, the count of
\* unchanged steps being 0 after a step that found a new height; and once
\* called it returns
C11_ScrollBounded ==
  /\ [](Scrolling =>
          /\ scroll_steps <= max_scrolls
          /\ pc = "scroll_loop" =>
               /\ ~ StableNow
               /\ scroll_steps = scroll_count
               /\ (Len(heights) >= 2 /\ ~ UnchangedStep(Len(heights) - 1))
                    => no_change_count = 0
               /\ (Len(heights) >= 2 /\ UnchangedStep(Len(heights) - 1))
                    => no_change_count >= 1)
  /\ (pc = "scroll") ~> (pc = "scroll_done")

\* scroll_results returned after 3 unchanged steps, budget not spent, having
\* seen the height change before
C11_Witness ==
  /\ pc = "scroll_done"
  /\ scroll_ok = Some(TRUE)
  /\ StableNow
  /\ scroll_steps < max_scrolls
  /\ scroll_steps > 3

\* C12: the cards are gone through in document order, and the list is a
\* subsequence of them: its records are the parses of cards at increasing
\* positions, all of them already gone through
C12_DocumentOrder ==
  Extracting =>
    /\ Len(admitted_from) = Len(businesses)
    /\ \A k \in 1..Len(businesses) :
         /\ admitted_from[k] \in 1..(i - 1)
         /\ Parseable(admitted_from[k])
         /\ businesses[k] = parsed[admitted_from[k]][1]
         /\ \A m \in 1..(k - 1) : admitted_from[m] < admitted_from[k]

\* two records admitted with a duplicate dropped between them
C12_Witness ==
  /\ pc = "extract_done"
  /\ Len(businesses) = 2
  /\ admitted_from[2] > admitted_from[1] + 1
  /\ DerivedId(admitted_from[1] + 1) = DerivedId(admitted_from[1])
  /\ DerivedId(admitted_from[1]) # None

\* no name selector gives the card a title: each finds nothing, raises, or
\* finds blank text
Unresolved(card) ==
  \A n \in 1..Len(card.names) :
    card.names[n] = None \/ Strip(card.names[n][1]) = ""

\* the first character of the card's first text line
FirstChar(card) == Ch(Split(card.text, "\n")[1], 1)

\* C13: a card whose title no selector resolves and whose first text line
\* starts with a digit or with the star glyph is rejected: parse_business_card
\* returns None
C13_RatingLineRejected ==
  (fn = "parse_business_card" /\ ret # None) =>
    ((Unresolved(arg) /\ FirstChar(arg) \in Digits \cup {StarGlyph})
       => ret[1] = None)

\* a card that has its link and raises nothing, rejected for its first line
C13_Witness ==
  /\ fn = "parse_business_card"
  /\ ret = Some(None)
  /\ arg.link
  /\ arg.raises = "none"
  /\ arg.href # None
  /\ Unresolved(arg)
  /\ FirstChar(arg) = StarGlyph
  /\ Len(Split(arg.text, "\n")) > 1

SetMax(S) == CHOOSE x \in S : \A y \in S : x >= y

RECURSIVE StripAll(_)
StripAll(lines) ==
  IF lines = <<>> THEN <<>>
  ELSE <<Strip(Head(lines))>> \o StripAll(Tail(lines))

\* the weekday names a line begins with (one at most)
DayNames(line) ==
  {Days[d] : d \in {e \in 1..Len(Days) : StartsWith(line, Days[e])}}

\* the non-blank lines of T that follow header h before the next header
Continuations(T, h) ==
  {n \in (h + 1)..Len(T) :
     /\ T[n] # ""
     /\ \A m \in (h + 1)..n : DayNames(T[m]) = {}}

\* the value stored for the day of header h is the last line that continues h
StoresLastLine(T, h, last) ==
  \A day \in DayNames(T[h]) :
    /\ day \in DOMAIN ret[1]
    /\ ret[1][day] = T[last]

\* every key is a weekday name, and the lines before the first header count
\* for nothing: the text without them gives the same result
KeysAndLeadingLines(T, headers) ==
  /\ DOMAIN ret[1] \subseteq {Days[d] : d \in 1..Len(Days)}
  /\ IF headers = {} THEN ret[1] = EmptyDict
     ELSE ret[1] = parse_hours(Some(Join(
            SubSeq(Split(arg[1], "\n"), SetMin(headers), Len(T)), "\n")))

HoursReturned == fn = "parse_hours" /\ ret # None /\ arg # None

\* C14, as stated: for each day header followed by one or more continuation
\* lines the value stored for that day is the last such line; lines before
\* the first header contribute nothing; every key is a weekday name
C14_Original ==
  HoursReturned =>
    \E T \in {StripAll(Split(arg[1], "\n"))} :
      /\ \A h \in 1..Len(T) :
           \E C \in {Continuations(T, h)} :
             (DayNames(T[h]) # {} /\ C # {})
               => StoresLastLine(T, h, SetMax(C))
      /\ KeysAndLeadingLines(T, {n \in 1..Len(T) : DayNames(T[n]) # {}})

\* C14, amended: the same, for each day header after which no later line
\* begins with the same day name
C14_LastLineWins ==
  HoursReturned =>
    \E T \in {StripAll(Split(arg[1], "\n"))} :
      /\ \A h \in 1..Len(T) :
           \E C \in {Continuations(T, h)} :
             (/\ DayNames(T[h]) # {}
              /\ C # {}
              /\ \A m \in (h + 1)..Len(T) : DayNames(T[m]) # DayNames(T[h]))
             => StoresLastLine(T, h, SetMax(C))
      /\ KeysAndLeadingLines(T, {n \in 1..Len(T) : DayNames(T[n]) # {}})

\* the example of the claim, with its result
C14_Witness ==
  /\ fn = "parse_hours"
  /\ arg = Some("Monday\n9AM-5PM\nTuesday\nClosed")
  /\ ret = Some([Monday |-> "9AM-5PM", Tuesday |-> "Closed"])

\* the digits of text, behind one "+" when the first digit-or-plus character
\* of text is a "+"
PhoneProjection(text) ==
  (IF StartsWith(Keep(text, Digits \cup {"+"}), "+") THEN "+" ELSE "")
    \o Keep(text, Digits)

\* C15: extract_phone returns the input with every character removed except
\* digits and a single optional leading "+", and returns absent whenever
\* fewer than 10 digits remain in that result
C15_PhoneProjection ==
  (fn = "extract_phone" /\ ret # None /\ arg # None) =>
    \E digits \in {Keep(arg[1], Digits)} :
      ret[1] = IF Len(digits) < MinPhoneLength THEN None
               ELSE Some(PhoneProjection(arg[1]))

\* the phases of a run, in the order scrape starts them
Phases == <<"search", "scroll", "extract", "deep">>

\* search returned False, or scroll_results returned False
Failed == search_success = Some(FALSE) \/ scroll_ok = Some(FALSE)

\* C16: the phases of a run start only in the order search, scroll, extract,
\* optional deep-scrape, none of them twice, and after an unrecoverable
\* condition in the search phase or in the scroll phase no card extraction
\* and no detail visit happens in that run
C16_FailedAbsorbing ==
  /\ Len(trace) <= Len(Phases)
  /\ trace = SubSeq(Phases, 1, Len(trace))
  /\ Failed =>
       /\ pc \notin {"extract", "extract_loop", "extract_done", "deep"}
       /\ \A n \in 1..Len(trace) : trace[n] \notin {"extract", "deep"}

\* C17: during extraction every parse of a card is preceded by a rate-limiter
\* acquisition for that card: when i - 1 cards have been parsed, at least
\* i - 1 calls of wait_if_needed have returned
C17_RateLimitThenParse ==
  Extracting => Len(rl_completed) >= i - 1

\* C18: when the session has been torn down by the time the run ends, scrape
\* still delivers its list and nothing raised by the cleanup reaches the caller
C18_CleanupTolerated ==
  (pc = "done" /\ context = "torn") =>
    /\ result.kind = "returned"
    /\ pending # None
    /\ result.value = pending[1]

\* the position of the card parsed last for a record of the list, 0 when the
\* list is empty
LastAdmittedFrom ==
  IF admitted_from = <<>> THEN 0 ELSE admitted_from[Len(admitted_from)]

\* C19: the extracted list never holds more than max_results records, and
\* once it holds max_results records no further card is parsed, even if more
\* cards remain: the card parsed last is the one that gave the last record
C19_StopAtLimit ==
  /\ Len(businesses) <= max_results
  /\ (Extracting /\ Len(businesses) = max_results) => i - 1 = LastAdmittedFrom

\* the loop has stopped at the limit with a card still unparsed
C19_Witness ==
  /\ pc = "extract_done"
  /\ max_results >= 1
  /\ Len(businesses) = max_results
  /\ i <= Len(cards)

\* C20: detail visits start only after extract_business_cards has returned,
\* no card is parsed after the first detail visit, and the records are
\* visited in the order in which they were admitted
C20_DeepAfterExtract ==
  DeepRan =>
    /\ pc \in {"deep", "finally", "done"}
    /\ trace = Phases
    /\ cards = <<>> /\ parsed = <<>>
    /\ Len(visit_how) <= Len(businesses)
    /\ \A n \in 1..Len(visit_how) : visit_how[n].business = businesses[n]
    /\ \A m, n \in 1..Len(origin) : m <= n => origin[m] <= origin[n]

\* two different records were admitted and both have been visited
C20_Witness ==
  /\ DeepRan
  /\ Len(visit_how) = 2
  /\ businesses[1] # businesses[2]

\* a browser call raises while the card at position n is parsed
Raising(n) == cards[n].raises # "none"

\* the card at position n gave a record of the list
AdmittedAt(n) == \E k \in 1..Len(admitted_from) : admitted_from[k] = n

StepOfKey(key) ==
  CASE key = "reviewsCount" -> "reviews"
    [] key = "plusCode" -> "plus_code"
    [] key \in {"placeId", "coordinates"} -> "url"
    [] OTHER -> key

\* the place of a step in the order of the steps; past the last for "none"
StepIndex(step) ==
  IF \E n \in 1..Len(DetailSteps) : DetailSteps[n] = step
  THEN CHOOSE n \in 1..Len(DetailSteps) : DetailSteps[n] = step
  ELSE Len(DetailSteps) + 1

Remainder(line, day) == Strip(SubSeq(line, Len(day) + 1, Len(line)))

\* C23: every line of the hours text that begins with a day name creates or
\* replaces the entry of that day with the trimmed remainder of the line,
\* also when the remainder is empty: every header's day is a key of the
\* result, and a header with no continuation line and no later header of
\* its day has its remainder as the day's value
C23_HeaderAlwaysStored ==
  HoursReturned =>
    \E T \in {StripAll(Split(arg[1], "\n"))} :
      \A h \in 1..Len(T) :
        \A day \in DayNames(T[h]) :
          /\ day \in DOMAIN ret[1]
          /\ (/\ Continuations(T, h) = {}
              /\ \A m \in (h + 1)..Len(T) : day \notin DayNames(T[m]))
             => ret[1][day] = Remainder(T[h], day)

\* the card at position n parses to a record for which no placeId is derived
Anonymous(n) == Parseable(n) /\ DerivedId(n) = None

\* C24: records for which no placeId can be derived are never deduplicated
\* against each other: every card that was parsed to a record without a
\* placeId gave its own record of the list, whatever came before it
C24_NoIdNeverDeduplicated ==
  Extracting =>
    /\ \A n \in 1..(i - 1) : Anonymous(n) => AdmittedAt(n)
    /\ \A k, l \in 1..Len(admitted_from) :
         k < l => admitted_from[k] < admitted_from[l]
    /\ Cardinality({k \in 1..Len(businesses) : PlaceIdOf(businesses[k]) = None})
         = Cardinality({n \in 1..(i - 1) : Anonymous(n)})

\* the same card without a placeId was shown twice and gave two records
C24_Witness ==
  /\ Extracting
  /\ \E a, b \in 1..(i - 1) :
       /\ a < b
       /\ cards[a] = cards[b]
       /\ Anonymous(a)
       /\ AdmittedAt(a) /\ AdmittedAt(b)

\* C25: the scroll budget scrape passes to scroll_results never exceeds the
\* ceiling of 100 steps and is non-decreasing in max_results: no smaller
\* positive max_results gets a larger budget
C25_BudgetMonotone ==
  (fn = "needed_scrolls" /\ ret # None) =>
    /\ ret[1] <= 100
    /\ \A smaller \in 1..arg : needed_scrolls(smaller) <= ret[1]

\* a request large enough for the ceiling to apply
C25_Witness ==
  /\ fn = "needed_scrolls"
  /\ arg > 450
  /\ ret = Some(ScrollCeiling)

\* C26: deep_scrape_businesses returns exactly one record per input record,
\* in the same order, whatever mix of successes and failures occurs; a record
\* without a url is passed through unchanged and causes no navigation
C26_OneRecordEach ==
  DeepRan =>
    /\ Len(detailed_businesses) = Len(visit_how)
    /\ \A n \in 1..Len(detailed_businesses) : origin[n] = n
    /\ \A n \in 1..Len(visit_how) :
         ~ HasUrl(businesses[n]) =>
           /\ visit_how[n].how = "no_url"
           /\ EntriesOf(n) # {}
           /\ \A m \in EntriesOf(n) : detailed_businesses[m] = businesses[n]

\* a rating is absent or lies between 0 and 5
InRatingRange(rating) ==
  rating = None \/ (0 <= rating[1].num /\ rating[1].num <= 5 * rating[1].den)

\* C27: every rating carried by a record that scrape returns is within the
\* range 0 to 5 inclusive or absent
C27_RatingInRange ==
  result.kind = "returned" =>
    \A k \in 1..Len(result.value) :
      "rating" \in DOMAIN result.value[k]
        => InRatingRange(result.value[k].rating)

=========================================================================
